---- MODULE Spec2Model ----
(***************************************************************************)
(* Model of the Socket.IO signaling server in src/server.js: the in-memory *)
(* room store `rooms`, the per-socket fields socket.meetingId and          *)
(* socket.username, the transport's broadcast groups (socket.rooms), and   *)
(* the handlers create-meeting, join-meeting, offer, answer, ice-candidate *)
(* and disconnect.  Each handler runs to completion (Node's single event   *)
(* loop), so each is one atomic action; `last` shows the run and its emits *)
(* until the handler has returned (Return).  The relays change nothing but *)
(* `last`; they are left to SpecSignal, the room lifecycle is Spec.        *)
(***************************************************************************)
EXTENDS Integers, Sequences, FiniteSets

\* Number of transport connections that may ever be opened.
MaxConns == 2
\* Number of identifiers uuidv4() hands out.
MaxRooms == 2

----------------------------------------------------------------------------
(* Identifiers.  Socket ids and meeting ids are both strings in the code;  *)
(* they are kept apart here by a tag so that a client may still supply one *)
(* where the other is expected.                                            *)

SockId(i) == <<"socket", i>>
Uuid(i) == <<"uuid", i>>
SocketIds == {SockId(i) : i \in 1..MaxConns}
MeetingIds == {Uuid(i) : i \in 1..MaxRooms}

\* The value of a field that was never assigned (socket.meetingId).
Undefined == <<"undefined", 0>>
\* A property name every plain object inherits from Object.prototype
\* ("constructor", "toString", "__proto__", ...): `rooms` is a plain {}.
ProtoKey == <<"constructor", 0>>
InheritedKeys == {ProtoKey}

\* socket.username before any create/join.
NoName == "undefined"
\* The display name a client supplies in its requests: the first client
\* supplies the empty (falsy) name, the others a name of their own.
ClientName(s) == IF s[2] = 1 THEN "" ELSE IF s[2] % 2 = 0 THEN "Ann" ELSE "Bob"
Usernames(s) == {ClientName(s)}

\* What a client may put in a meetingId field / in a `to` field.
ClientMeetingIds == MeetingIds \cup InheritedKeys
ClientTargets == SocketIds \cup MeetingIds

VARIABLES
    conn,           \* conn[s]: "fresh" (not yet connected), "connected", "closed"
    sockMeetingId,  \* socket.meetingId
    sockUsername,   \* socket.username
    sockRooms,      \* socket.rooms: the transport groups the socket is in
    rooms,          \* rooms[meetingId] = [hostId, users]; users is a Map<socketId, username>
    nextUuid,       \* index of the next identifier uuidv4() returns
    last            \* the handler run being observed: its arguments and its emits;
                    \* op = "idle" between runs

vars == <<conn, sockMeetingId, sockUsername, sockRooms, rooms, nextUuid, last>>

----------------------------------------------------------------------------
(* Map<socketId, username>: a function from its keys to their values.  The *)
(* Map's insertion order is not kept; entries() lists the keys by socket   *)
(* index.                                                                  *)

MapKeys(users) == DOMAIN users

\* new Map([[id, name]])
MapOf(id, name) == [k \in {id} |-> name]

\* Map.prototype.set
MapSet(users, id, name) ==
    [k \in DOMAIN users \cup {id} |-> IF k = id THEN name ELSE users[k]]

\* Map.prototype.delete
MapDelete(users, id) == [k \in DOMAIN users \ {id} |-> users[k]]

\* [...users.entries()]
RECURSIVE Entries(_, _)
Entries(i, users) ==
    IF i > MaxConns THEN <<>>
    ELSE (IF SockId(i) \in DOMAIN users
          THEN <<[id |-> SockId(i), username |-> users[SockId(i)]]>> ELSE <<>>)
         \o Entries(i + 1, users)

\* The filter on the joiner's own id left out.
ExistingUsersUnfiltered(users, id) == Entries(1, users)

\* [...room.users.entries()].filter(([id]) => id !== socket.id).map(...)
ExistingUsers(users, id) == SelectSeq(Entries(1, users), LAMBDA e : e.id # id)

----------------------------------------------------------------------------
(* The room store, a plain object.                                         *)

HasOwn(mid) == mid \in DOMAIN rooms

\* The `if (!room)` test left out: every lookup counts as found.
TruthyAlways(mid) == TRUE

\* rooms[meetingId] is truthy: an own entry, or a value inherited from
\* Object.prototype (which has no `users`).
Truthy(mid) == HasOwn(mid) \/ mid \in InheritedKeys

\* The host test reading a field the room does not have (room.host is
\* undefined): never true.
IsHostNever(id, room) == FALSE

\* socket.id === room.hostId
IsHost(id, room) == id = room.hostId

\* delete rooms[meetingId]
DeleteRoom(mid) == [m \in DOMAIN rooms \ {mid} |-> rooms[m]]

\* The store replaced by one holding the new room alone.
PutRoomAlone(mid, value) == [m \in {mid} |-> value]

\* rooms[meetingId] = value
PutRoom(mid, value) == [m \in DOMAIN rooms \cup {mid} |-> IF m = mid THEN value ELSE rooms[m]]

----------------------------------------------------------------------------
(* Transport emits.  A message is [to, event, data]; `out` lists the       *)
(* messages of one handler run in the order they are emitted.              *)

Msg(to, event, data) == [to |-> to, event |-> event, data |-> data]

RECURSIVE Deliver(_, _, _, _)
Deliver(i, recipients, event, data) ==
    IF i > MaxConns THEN <<>>
    ELSE (IF SockId(i) \in recipients THEN <<Msg(SockId(i), event, data)>> ELSE <<>>)
         \o Deliver(i + 1, recipients, event, data)

\* The sockets currently in transport group `group`.
InGroup(group) == {t \in SocketIds : group \in sockRooms[t]}

\* socket.emit(event, data)
SocketEmit(id, event, data) == <<Msg(id, event, data)>>

\* socket.to(group).emit(event, data): everyone in the group but the sender.
SocketTo(id, group, event, data) == Deliver(1, InGroup(group) \ {id}, event, data)

\* io.emit(event, data): every connected socket, whatever the group.
IoToBroadcast(group, event, data) ==
    Deliver(1, {t \in SocketIds : conn[t] = "connected"}, event, data)

\* io.to(group).emit(event, data): everyone in the group.
IoTo(group, event, data) == Deliver(1, InGroup(group), event, data)

\* No handler is running and the emits of the previous run have been handed
\* to the transport.
Idle == [op |-> "idle", id |-> Undefined, meetingId |-> Undefined, username |-> NoName,
         to |-> Undefined, out |-> <<>>, threw |-> FALSE]

Ran(op, id, mid, name, to, out, threw) ==
    [op |-> op, id |-> id, meetingId |-> mid, username |-> name, to |-> to,
     out |-> out, threw |-> threw]

----------------------------------------------------------------------------
Init ==
    /\ conn = [s \in SocketIds |-> "fresh"]
    /\ sockMeetingId = [s \in SocketIds |-> Undefined]
    /\ sockUsername = [s \in SocketIds |-> NoName]
    /\ sockRooms = [s \in SocketIds |-> {}]
    /\ rooms = << >>
    /\ nextUuid = 1
    /\ last = Idle

\* io.on("connection"): the transport assigns the next unused id; the socket
\* starts in the group named by its own id.
Connect(s) ==
    /\ last = Idle
    /\ conn[s] = "fresh"
    /\ \A i \in 1..MaxConns : conn[SockId(i)] = "fresh" => s[2] <= i
    /\ conn' = [conn EXCEPT ![s] = "connected"]
    /\ sockRooms' = [sockRooms EXCEPT ![s] = {s}]
    /\ last' = Ran("connection", s, Undefined, NoName, Undefined, <<>>, FALSE)
    /\ UNCHANGED <<sockMeetingId, sockUsername, rooms, nextUuid>>

\* socket.on("create-meeting")
CreateMeeting(s, username) ==
    /\ last = Idle
    /\ conn[s] = "connected"
    /\ nextUuid <= MaxRooms
    /\ LET meetingId == Uuid(nextUuid)
           name == IF username = "" THEN "Host" ELSE username
       IN /\ rooms' = PutRoom(meetingId,
                         [hostId |-> s, users |-> MapOf(s, name)])
          /\ sockRooms' = [sockRooms EXCEPT ![s] = @ \cup {meetingId}]
          /\ sockMeetingId' = [sockMeetingId EXCEPT ![s] = meetingId]
          /\ sockUsername' = [sockUsername EXCEPT ![s] = name]
          /\ last' = Ran("create-meeting", s, meetingId, username, Undefined,
                         SocketEmit(s, "meeting-created", [meetingId |-> meetingId]),
                         FALSE)
    /\ nextUuid' = nextUuid + 1
    /\ UNCHANGED conn

\* socket.on("join-meeting")
JoinMeeting(s, meetingId, username) ==
    /\ last = Idle
    /\ conn[s] = "connected"
    /\ IF ~Truthy(meetingId)
       THEN \* if (!room): emit the error and return
            /\ last' = Ran("join-meeting", s, meetingId, username, Undefined,
                           SocketEmit(s, "meeting-error", [text |-> "Meeting not found"]),
                           FALSE)
            /\ UNCHANGED <<sockMeetingId, sockUsername, sockRooms, rooms>>
       ELSE IF ~HasOwn(meetingId)
       THEN \* room.users is undefined: room.users.set throws a TypeError
            \* before anything is assigned or emitted
            /\ last' = Ran("join-meeting", s, meetingId, username, Undefined, <<>>, TRUE)
            /\ UNCHANGED <<sockMeetingId, sockUsername, sockRooms, rooms>>
       ELSE LET users == MapSet(rooms[meetingId].users, s, username)
            IN /\ rooms' = [rooms EXCEPT ![meetingId].users = users]
               /\ sockRooms' = [sockRooms EXCEPT ![s] = @ \cup {meetingId}]
               /\ sockMeetingId' = [sockMeetingId EXCEPT ![s] = meetingId]
               /\ sockUsername' = [sockUsername EXCEPT ![s] = username]
               /\ last' = Ran("join-meeting", s, meetingId, username, Undefined,
                              SocketEmit(s, "existing-users",
                                         [users |-> ExistingUsers(users, s)])
                              \o SocketTo(s, meetingId, "user-joined",
                                          [id |-> s, username |-> username]),
                              FALSE)
    /\ UNCHANGED <<conn, nextUuid>>

\* socket.on("offer" / "answer" / "ice-candidate"): io.to(to).emit(kind, {from, ...})
Relay(s, kind, to) ==
    /\ last = Idle
    /\ conn[s] = "connected"
    /\ last' = Ran(kind, s, Undefined, NoName, to, IoTo(to, kind, [from |-> s]), FALSE)
    /\ UNCHANGED <<conn, sockMeetingId, sockUsername, sockRooms, rooms, nextUuid>>

Offer(s, to) == Relay(s, "offer", to)

Answer(s, to) == Relay(s, "answer", to)

IceCandidate(s, to) == Relay(s, "ice-candidate", to)

\* A disconnect handler that announces the departure to every other connected
\* socket before looking at socket.meetingId, and cleans nothing.
DisconnectAnnounce(s) ==
    /\ last = Idle
    /\ conn[s] = "connected"
    /\ conn' = [conn EXCEPT ![s] = "closed"]
    /\ sockRooms' = [sockRooms EXCEPT ![s] = {}]
    /\ last' = Ran("disconnect", s, sockMeetingId[s], NoName, Undefined,
                   Deliver(1, {t \in SocketIds : conn[t] = "connected"} \ {s},
                           "user-left", [id |-> s]),
                   FALSE)
    /\ UNCHANGED <<sockMeetingId, sockUsername, rooms, nextUuid>>

\* A disconnect handler without the `!rooms[meetingId]` test: on a room that is
\* no longer stored, rooms[meetingId].users throws a TypeError.
DisconnectUnguarded(s) ==
    /\ last = Idle
    /\ conn[s] = "connected"
    /\ conn' = [conn EXCEPT ![s] = "closed"]
    /\ sockRooms' = [sockRooms EXCEPT ![s] = {}]
    /\ LET meetingId == sockMeetingId[s]
       IN IF meetingId = Undefined
          THEN /\ last' = Ran("disconnect", s, meetingId, NoName, Undefined, <<>>, FALSE)
               /\ UNCHANGED rooms
          ELSE IF ~HasOwn(meetingId)
          THEN /\ last' = Ran("disconnect", s, meetingId, NoName, Undefined, <<>>, TRUE)
               /\ UNCHANGED rooms
          ELSE LET room == rooms[meetingId]
                   left == SocketTo(s, meetingId, "user-left", [id |-> s])
               IN IF IsHost(s, room)
                  THEN /\ rooms' = DeleteRoom(meetingId)
                       /\ last' = Ran("disconnect", s, meetingId, NoName, Undefined,
                                      left \o SocketTo(s, meetingId, "meeting-ended",
                                                       [none |-> TRUE]),
                                      FALSE)
                  ELSE /\ rooms' = [rooms EXCEPT ![meetingId].users =
                                        MapDelete(room.users, s)]
                       /\ last' = Ran("disconnect", s, meetingId, NoName, Undefined,
                                      left, FALSE)
    /\ UNCHANGED <<sockMeetingId, sockUsername, nextUuid>>

\* socket.on("disconnect"): the transport has already taken the socket out of
\* every group when the handler runs.
Disconnect(s) ==
    /\ last = Idle
    /\ conn[s] = "connected"
    /\ conn' = [conn EXCEPT ![s] = "closed"]
    /\ sockRooms' = [sockRooms EXCEPT ![s] = {}]
    /\ LET meetingId == sockMeetingId[s]
       IN IF meetingId = Undefined \/ ~Truthy(meetingId)
          THEN /\ last' = Ran("disconnect", s, meetingId, NoName, Undefined, <<>>, FALSE)
               /\ UNCHANGED rooms
          ELSE LET room == rooms[meetingId]
                   left == SocketTo(s, meetingId, "user-left", [id |-> s])
               IN IF IsHost(s, room)
                  THEN /\ rooms' = DeleteRoom(meetingId)
                       /\ last' = Ran("disconnect", s, meetingId, NoName, Undefined,
                                      left \o SocketTo(s, meetingId, "meeting-ended",
                                                       [none |-> TRUE]),
                                      FALSE)
                  ELSE /\ rooms' = [rooms EXCEPT ![meetingId].users =
                                        MapDelete(room.users, s)]
                       /\ last' = Ran("disconnect", s, meetingId, NoName, Undefined,
                                      left, FALSE)
    /\ UNCHANGED <<sockMeetingId, sockUsername, nextUuid>>

\* The handler has returned to the event loop, which takes the next event.
Return ==
    /\ last # Idle
    /\ last' = Idle
    /\ UNCHANGED <<conn, sockMeetingId, sockUsername, sockRooms, rooms, nextUuid>>

Next ==
    \/ Return
    \/ \E s \in SocketIds : Connect(s)
    \/ \E s \in SocketIds : \E username \in Usernames(s) : CreateMeeting(s, username)
    \/ \E s \in SocketIds, meetingId \in ClientMeetingIds : \E username \in Usernames(s) :
          JoinMeeting(s, meetingId, username)
    \/ \E s \in SocketIds : Disconnect(s)

Spec == Init /\ [][Next]_vars

\* The same server with the signaling relays.
NextSignal ==
    \/ Next
    \/ \E s \in SocketIds, to \in ClientTargets : Offer(s, to)
    \/ \E s \in SocketIds, to \in ClientTargets : Answer(s, to)
    \/ \E s \in SocketIds, to \in ClientTargets : IceCandidate(s, to)

SpecSignal == Init /\ [][NextSignal]_vars

\* A "leave-room" event from a client: the connection handler registers no
\* listener for it, so the server does nothing.
LeaveRoom(s) ==
    /\ last = Idle
    /\ conn[s] = "connected"
    /\ last' = Ran("leave-room", s, Undefined, NoName, Undefined, <<>>, FALSE)
    /\ UNCHANGED <<conn, sockMeetingId, sockUsername, sockRooms, rooms, nextUuid>>

\* The same server with clients that also send leave-room.
NextLeave ==
    \/ Next
    \/ \E s \in SocketIds : LeaveRoom(s)

SpecLeave == Init /\ [][NextLeave]_vars

----------------------------------------------------------------------------
(* Properties.  `last` is the handler run that led to the current state;   *)
(* in an action formula the unprimed variables are the state before that   *)
(* run and last' describes the run.                                        *)

\* How many times the run `l` emitted (event, data) to socket t.
Sent(l, t, event, data) ==
    Cardinality({i \in 1..Len(l.out) :
                    l.out[i].to = t /\ l.out[i].event = event /\ l.out[i].data = data})

\* How many messages of kind `event` the run `l` emitted to socket t.
SentKind(l, t, event) ==
    Cardinality({i \in 1..Len(l.out) : l.out[i].to = t /\ l.out[i].event = event})

NotFound(id) == SocketEmit(id, "meeting-error", [text |-> "Meeting not found"])

\* An identifier uuidv4() has handed out whose room is no longer stored.
Destroyed(m) == (\E i \in 1..(nextUuid - 1) : m = Uuid(i)) /\ m \notin DOMAIN rooms

\* C1: after a disconnect handler has run, no stored room has the
\* disconnected connection as its hostId.
C1_OwnerRoomsGone ==
    last.op = "disconnect" => \A m \in DOMAIN rooms : rooms[m].hostId # last.id

\* C2: a disconnect of a connection that is not the owner of room R leaves R
\* stored with the same owner, and R's member set is the one before minus
\* the departing connection.
C2_NonOwnerDisconnect ==
    [][last'.op = "disconnect" =>
          \A m \in DOMAIN rooms :
              rooms[m].hostId # last'.id =>
                  /\ m \in DOMAIN rooms'
                  /\ rooms'[m].hostId = rooms[m].hostId
                  /\ MapKeys(rooms'[m].users) = MapKeys(rooms[m].users) \ {last'.id}]_vars

\* C3: every key of every stored room's member map is a currently connected
\* connection.
C3_NoGhostMembers ==
    \A m \in DOMAIN rooms : \A id \in MapKeys(rooms[m].users) : conn[id] = "connected"

\* C4: every stored room's hostId is a key of its member map, and a key enters
\* a member map only by that connection's own create-meeting or join-meeting
\* for that room.
C4_OwnerIsMember ==
    /\ \A m \in DOMAIN rooms : rooms[m].hostId \in MapKeys(rooms[m].users)
    /\ [][\/ rooms' = rooms
          \/ \A m \in DOMAIN rooms' :
                /\ rooms'[m].hostId \in MapKeys(rooms'[m].users)
                /\ MapKeys(rooms'[m].users) \subseteq
                      (IF m \in DOMAIN rooms THEN MapKeys(rooms[m].users) ELSE {})
                      \cup (IF /\ last'.op \in {"create-meeting", "join-meeting"}
                               /\ last'.meetingId = m
                            THEN {last'.id} ELSE {})]_vars

\* A non-owner has disconnected from a room that is still stored, its owner
\* still a member.
C4_Witness ==
    /\ last.op = "disconnect"
    /\ last.meetingId \in DOMAIN rooms
    /\ rooms[last.meetingId].hostId \in MapKeys(rooms[last.meetingId].users)
    /\ last.id \notin MapKeys(rooms[last.meetingId].users)

\* C5: when the owner of room R disconnects, every connection still a member
\* of R is sent exactly one meeting-ended, and no connection that is outside
\* every room the owner owns is sent one.  (Only members that are still
\* connected are counted, the reading most favourable to the code.)
C5_OwnerDisconnectEndsRoom ==
    [][last'.op = "disconnect" =>
          LET owned == {m \in DOMAIN rooms : rooms[m].hostId = last'.id}
          IN \A t \in SocketIds \ {last'.id} :
                /\ \A m \in owned :
                      (t \in MapKeys(rooms[m].users) /\ conn[t] = "connected")
                          => SentKind(last', t, "meeting-ended") = 1
                /\ SentKind(last', t, "meeting-ended") > 0
                      => \E m \in owned : t \in MapKeys(rooms[m].users)]_vars

\* C6: once a room has been destroyed it is never stored again, and every
\* join-meeting naming it emits exactly "Meeting not found" to the requester
\* and changes no room.
C6_DestroyedStaysGone ==
    [][\A m \in MeetingIds :
          Destroyed(m) =>
              /\ m \notin DOMAIN rooms'
              /\ (last'.op = "join-meeting" /\ last'.meetingId = m) =>
                    /\ last'.out = NotFound(last'.id)
                    /\ ~last'.threw
                    /\ rooms' = rooms]_vars

\* A join-meeting naming a destroyed room has been answered.
C6_Witness ==
    /\ last.op = "join-meeting"
    /\ Destroyed(last.meetingId)
    /\ last.out = NotFound(last.id)

\* C7: a join-meeting for an identifier that names no stored room changes no
\* room, no socket field and no transport group, and emits exactly one
\* meeting-error, to the requester.
C7_FailedJoinIsNoop ==
    [][(last'.op = "join-meeting" /\ last'.meetingId \notin DOMAIN rooms) =>
          /\ UNCHANGED <<rooms, sockMeetingId, sockUsername, sockRooms>>
          /\ ~last'.threw
          /\ last'.out = NotFound(last'.id)]_vars

\* C8: on a successful join of R by J the run emits one existing-users, to J,
\* and its list holds exactly the keys of R's member map before the join other
\* than J, each once, each with the name recorded for it.
C8_ExistingUsersSnapshot ==
    [][(last'.op = "join-meeting" /\ last'.meetingId \in DOMAIN rooms) =>
          LET J == last'.id
              before == rooms[last'.meetingId].users
              first == last'.out[1]
              list == first.data.users
          IN /\ first.to = J /\ first.event = "existing-users"
             /\ \A t \in SocketIds :
                   SentKind(last', t, "existing-users") = (IF t = J THEN 1 ELSE 0)
             /\ \A i \in 1..Len(list) : list[i].id \in MapKeys(before) \ {J}
             /\ \A k \in MapKeys(before) \ {J} :
                   /\ Cardinality({i \in 1..Len(list) : list[i].id = k}) = 1
                   /\ \A i \in 1..Len(list) :
                         list[i].id = k => list[i].username = before[k]]_vars

\* A join whose requester was already a member has been answered with a list
\* that is not empty.
C8_Witness ==
    /\ last.op = "join-meeting"
    /\ Len(last.out) >= 1
    /\ last.out[1].event = "existing-users"
    /\ Len(last.out[1].data.users) >= 1
    /\ rooms[last.meetingId].hostId = last.id

\* C9: on a successful join of R by J, user-joined with J's id and name is
\* sent exactly once to every other key of R's member map and to nobody else.
C9_UserJoinedToMembers ==
    [][(last'.op = "join-meeting" /\ last'.meetingId \in DOMAIN rooms) =>
          LET J == last'.id
              note == [id |-> J, username |-> last'.username]
          IN \A t \in SocketIds :
                Sent(last', t, "user-joined", note) =
                   (IF t \in MapKeys(rooms[last'.meetingId].users) \ {J} THEN 1 ELSE 0)]_vars

\* C10: when a member B of room R that is not R's owner disconnects, every
\* remaining member of R is sent exactly one user-left naming B and nobody
\* outside R is sent one.  (Only members that are still connected are
\* counted, the reading most favourable to the code.)
C10_UserLeftToMembers ==
    [][last'.op = "disconnect" =>
          LET B == last'.id
          IN \A m \in DOMAIN rooms :
                (B \in MapKeys(rooms[m].users) /\ rooms[m].hostId # B) =>
                    \A t \in SocketIds \ {B} :
                       Sent(last', t, "user-left", [id |-> B]) =
                          (IF t \in MapKeys(rooms[m].users) /\ conn[t] = "connected"
                           THEN 1 ELSE 0)]_vars

\* C11: when the disconnecting connection is the owner of the room it is
\* bound to, nobody is sent a user-left naming the owner (the members are sent
\* meeting-ended instead).
C11_OwnerLeaveIsNotUserLeft ==
    [][(/\ last'.op = "disconnect"
        /\ last'.meetingId \in DOMAIN rooms
        /\ rooms[last'.meetingId].hostId = last'.id) =>
          \A t \in SocketIds : Sent(last', t, "user-left", [id |-> last'.id]) = 0]_vars

\* C12: a connection that never created or joined a room (it is in no
\* transport group but its own) disconnects: nothing is emitted, nothing is
\* thrown, and the room store is unchanged.
C12_NeverJoinedDisconnect ==
    [][(last'.op = "disconnect" /\ sockRooms[last'.id] = {last'.id}) =>
          /\ last'.out = <<>>
          /\ ~last'.threw
          /\ rooms' = rooms]_vars

\* A connection that never created or joined has disconnected while another
\* connection's room is stored.
C12_Witness ==
    /\ last.op = "disconnect"
    /\ last.meetingId = Undefined
    /\ \E m \in DOMAIN rooms : conn[rooms[m].hostId] = "connected"

\* C13: a relay changes neither the room store nor any socket's meetingId,
\* username or transport groups and throws nothing; when its target is the id
\* of a closed connection nothing at all is emitted.
C13_RelayChangesNothing ==
    [][last'.op \in {"offer", "answer", "ice-candidate"} =>
          /\ UNCHANGED <<rooms, sockMeetingId, sockUsername, sockRooms, conn, nextUuid>>
          /\ ~last'.threw
          /\ (last'.to \in SocketIds /\ conn[last'.to] = "closed") => last'.out = <<>>]_vars

\* A relay addressed to a closed connection has run while a room is stored.
C13_Witness ==
    /\ last.op \in {"offer", "answer", "ice-candidate"}
    /\ last.to \in SocketIds
    /\ conn[last.to] = "closed"
    /\ rooms # << >>

\* C14: whatever target a relay names, each message it emits goes to the
\* connection whose id is that target, and to no other connection.
C14_RelayToTargetOnly ==
    last.op \in {"offer", "answer", "ice-candidate"} =>
        \A i \in 1..Len(last.out) : last.out[i].to = last.to

\* C15: create-meeting by A stores a new room owned by A whose member map is
\* exactly {A}, binds A to it, sends the new id to A and to nobody else, and
\* leaves every room stored before as it was -- also when A was already
\* bound to another room.
C15_CreateMeeting ==
    [][last'.op = "create-meeting" =>
          LET A == last'.id
              m == last'.meetingId
          IN /\ m \notin DOMAIN rooms
             /\ DOMAIN rooms' = DOMAIN rooms \cup {m}
             /\ rooms'[m].hostId = A
             /\ MapKeys(rooms'[m].users) = {A}
             /\ sockMeetingId'[A] = m
             /\ last'.out = <<Msg(A, "meeting-created", [meetingId |-> m])>>
             /\ ~last'.threw
             /\ \A k \in DOMAIN rooms : rooms'[k] = rooms[k]]_vars

\* A connection bound to a stored room of another owner, with a member besides
\* itself, has created a second room.
C15_Witness ==
    /\ last.op = "create-meeting"
    /\ \E k \in DOMAIN rooms :
          /\ k # last.meetingId
          /\ last.id \in MapKeys(rooms[k].users)
          /\ rooms[k].hostId # last.id

\* C16: a leave-room request by a member of the room it is bound to takes it
\* out of that room's member map (or ends the room, when it is the owner),
\* as a disconnect would.
C16_LeaveRoomRemovesMember ==
    [][(/\ last'.op = "leave-room"
        /\ sockMeetingId[last'.id] \in DOMAIN rooms
        /\ last'.id \in MapKeys(rooms[sockMeetingId[last'.id]].users)) =>
          \/ sockMeetingId[last'.id] \notin DOMAIN rooms'
          \/ last'.id \notin MapKeys(rooms'[sockMeetingId[last'.id]].users)]_vars

Named(l, t, event) ==
    {l.out[i].data.id : i \in {k \in 1..Len(l.out) : l.out[k].to = t /\ l.out[k].event = event}}

\* C18: across every handler run, for a connected M that stays bound to a
\* stored room R: the presence messages M is sent concern R only, and the
\* peers M knows (R's members but M, plus each user-joined, minus each
\* user-left, or the existing-users list when M is the joiner) are R's members
\* but M after the run.
C18_LocalViewsConsistent ==
    [][\A M \in SocketIds :
          LET R == sockMeetingId[M]
          IN (/\ conn[M] = "connected" /\ conn'[M] = "connected"
              /\ R \in DOMAIN rooms /\ R \in DOMAIN rooms'
              /\ sockMeetingId'[M] = R
              /\ M \in MapKeys(rooms[R].users)) =>
                /\ (SentKind(last', M, "user-joined") + SentKind(last', M, "user-left")
                      + SentKind(last', M, "meeting-ended") > 0) => last'.meetingId = R
                /\ IF SentKind(last', M, "existing-users") > 0
                   THEN \A i \in 1..Len(last'.out) :
                          (last'.out[i].to = M /\ last'.out[i].event = "existing-users") =>
                             {last'.out[i].data.users[k].id :
                                k \in 1..Len(last'.out[i].data.users)}
                               = MapKeys(rooms'[R].users) \ {M}
                   ELSE ((MapKeys(rooms[R].users) \ {M}) \cup Named(last', M, "user-joined"))
                           \ Named(last', M, "user-left")
                          = MapKeys(rooms'[R].users) \ {M}]_vars

\* C19: every connected socket that is a key of a stored room's member map is
\* bound to that room, so it is a member of at most one room.
C19_MemberOfBoundRoomOnly ==
    \A s \in SocketIds : \A m \in DOMAIN rooms :
        (conn[s] = "connected" /\ s \in MapKeys(rooms[m].users)) => sockMeetingId[s] = m

\* C20: a user-joined naming P is sent only when P was not yet a member of
\* the room: a join-meeting repeated by a member sends the others no second
\* user-joined.
C20_NoSecondUserJoined ==
    [][(/\ last'.op = "join-meeting"
        /\ last'.meetingId \in DOMAIN rooms
        /\ last'.id \in MapKeys(rooms[last'.meetingId].users)) =>
          \A t \in SocketIds : SentKind(last', t, "user-joined") = 0]_vars

====
